---- MODULE Spec2Model ----
(***************************************************************************)
(* Model of package iprange: addresses (ip.go), ranges (range.go), range   *)
(* sets and their algebra (IPRanges: Parse, Size, Merge, Union, Diff,      *)
(* Intersect).                                                             *)
(*                                                                         *)
(* A net.IP is a byte slice.  It is modelled by its length in bytes and    *)
(* the big-endian integer its bytes spell: [len |-> n, val |-> v].  The    *)
(* nil slice is NilIP.  Bytes are scaled down from 8 bits to BitsPerByte   *)
(* bits so that the address spaces stay inside the checker's integers;     *)
(* the byte counts of the two families (4 and 16) are kept.                *)
(***************************************************************************)
EXTENDS Integers, Sequences, FiniteSets, TLC

\* ------------------------------------------------------------------ bounds
BitsPerByte == 1
MaxTotal == 3
MaxFeeds == 1
MaxStrs == 3
MaxAsked == 2
MaxIterRanges == 2
MaxCalls == 3
MaxN == 2

\* --------------------------------------------------------- program constants
IPv4len == 4
IPv6len == 16
Unknown == 0
IPv4 == 1
IPv6 == 2

ByteBase == 2 ^ BitsPerByte
ByteMax == ByteBase - 1

\* --------------------------------------------------------------- net.IP
NilIP == [len |-> -1, val |-> 0]

MkIP(n, v) == [len |-> n, val |-> v]

Abs(i) == IF i < 0 THEN -i ELSE i

RECURSIVE ByteLen(_)
\* len(big.Int.Bytes()): the minimal number of bytes of |i|, 0 for 0
ByteLen(i) == IF i = 0 THEN 0 ELSE 1 + ByteLen(i \div ByteBase)

\* the IPv4-in-IPv6 prefix: ten zero bytes and two 0xff bytes, as the value
\* of the leading twelve bytes of a 16-byte slice
V4InV6Prefix == ByteMax * ByteBase + ByteMax

\* net.IP.To4
To4(ip) ==
    IF ip.len = IPv4len THEN ip
    ELSE IF ip.len = IPv6len /\ ip.val \div (ByteBase ^ IPv4len) = V4InV6Prefix
         THEN MkIP(IPv4len, ip.val % (ByteBase ^ IPv4len))
         ELSE NilIP

\* net.IP.To16
To16(ip) ==
    IF ip.len = IPv4len
    THEN MkIP(IPv6len, V4InV6Prefix * (ByteBase ^ IPv4len) + ip.val)
    ELSE IF ip.len = IPv6len THEN ip ELSE NilIP

\* len(ip): the nil slice has length 0, as the empty one
SliceLen(ip) == IF ip.len < 0 THEN 0 ELSE ip.len

\* net.IP.Equal
IPEqual(a, b) ==
    IF SliceLen(a) = SliceLen(b) THEN a.val = b.val
    ELSE IF a.len = IPv4len /\ b.len = IPv6len THEN To16(a) = b
    ELSE IF a.len = IPv6len /\ b.len = IPv4len THEN a = To16(b)
    ELSE FALSE

\* ------------------------------------------------------------------ ip.go
normalizeIP(ip) == IF To4(ip) # NilIP THEN To4(ip) ELSE To16(ip)

version(ip) ==
    LET nIP == normalizeIP(ip) IN
    IF nIP = NilIP THEN Unknown
    ELSE IF nIP.len = IPv4len THEN IPv4 ELSE IPv6

\* big.Int.SetBytes: the integer the bytes spell; nil and empty spell 0
ipToInt(ip) == IF ip = NilIP THEN 0 ELSE ip.val

\* net.IP(i.Bytes()): the minimal big-endian bytes of |i|
intToIP(i) == MkIP(ByteLen(Abs(i)), Abs(i))

next(ip) == intToIP(ipToInt(ip) + 1)

prev(ip) == intToIP(ipToInt(ip) - 1)

cmp(ip1, ip2) ==
    LET a == ipToInt(normalizeIP(ip1))
        b == ipToInt(normalizeIP(ip2))
    IN  IF a < b THEN -1 ELSE IF a = b THEN 0 ELSE 1

maxXIP(x, y) == IF cmp(x, y) > 0 THEN x ELSE y

minXIP(x, y) == IF cmp(x, y) < 0 THEN x ELSE y

max(x, y) == IF x > y THEN x ELSE y

min(x, y) == IF x < y THEN x ELSE y

\* --------------------------------------------------------------- range.go
MkRange(s, e) == [start |-> s, end |-> e]

\* the zero value of ipRange, as make([]ipRange, n) fills its slots
ZeroRange == MkRange(NilIP, NilIP)

contains(r, ip) ==
    LET c == cmp(r.start, ip) IN
    IF c = 0 THEN TRUE
    ELSE IF c = 1 THEN FALSE
    ELSE cmp(r.end, ip) >= 0

equal(r, r2) == IPEqual(r.start, r2.start) /\ IPEqual(r.end, r2.end)

size(r) == (1 + ipToInt(r.end)) - ipToInt(r.start)

\* ---------------------------------------------------------------- IPRanges
\* An IPRanges value: the family tag, the range list (the slice up to its
\* length) and the slots of its backing array between length and capacity.
MkSet(v, rs, sp) == [version |-> v, ranges |-> rs, spare |-> sp]

ZeroSlots(n) == [k \in 1..n |-> ZeroRange]

\* Contains without the comparison of the families
ContainsAnyFamily(s, ip) == \E k \in DOMAIN s.ranges : contains(s.ranges[k], ip)

Contains(s, ip) ==
    IF version(ip) # s.version THEN FALSE
    ELSE \E k \in DOMAIN s.ranges : contains(s.ranges[k], ip)

Equal(s1, s2) ==
    IF s1.version # s2.version THEN FALSE
    ELSE IF Len(s2.ranges) # Len(s1.ranges) THEN FALSE
    ELSE \A k \in DOMAIN s1.ranges : equal(s1.ranges[k], s2.ranges[k])

RECURSIVE SizeLoop(_, _, _)
SizeLoop(rs, k, n) ==
    IF k > Len(rs) THEN n ELSE SizeLoop(rs, k + 1, n + size(rs[k]))

\* sort.Slice(rc, less) with less(i, j) == rc[i].start.cmp(rc[j].start) < 0.
\* For slices of at most 12 elements the library sorts by insertion, which
\* is what is modelled: element k sinks while it is less than the one before.
less(a, b) == cmp(a.start, b.start) < 0

RECURSIVE Sink(_, _)
Sink(rc, j) ==
    IF j > 1 /\ less(rc[j], rc[j - 1])
    THEN Sink([rc EXCEPT ![j] = rc[j - 1], ![j - 1] = rc[j]], j - 1)
    ELSE rc

RECURSIVE InsertionSort(_, _)
InsertionSort(rc, k) ==
    IF k > Len(rc) THEN rc ELSE InsertionSort(Sink(rc, k), k + 1)

sortSlice(rc) == InsertionSort(rc, 2)

RECURSIVE MergeLoopPrevInput(_, _, _)
\* the sweep comparing each range with the range before it in rc instead of
\* with the last range of merged
MergeLoopPrevInput(rc, k, merged) ==
    IF k > Len(rc) THEN merged
    ELSE LET r == rc[k]
             cur == Len(merged)
         IN  IF cur = 0 THEN MergeLoopPrevInput(rc, k + 1, <<r>>)
             ELSE IF cmp(next(rc[k - 1].end), r.start) = 0
                  THEN MergeLoopPrevInput(rc, k + 1,
                                          [merged EXCEPT ![cur].end = r.end])
             ELSE IF cmp(rc[k - 1].end, r.start) < 0
                  THEN MergeLoopPrevInput(rc, k + 1, Append(merged, r))
             ELSE IF cmp(rc[k - 1].end, r.end) < 0
                  THEN MergeLoopPrevInput(rc, k + 1,
                                          [merged EXCEPT ![cur].end = r.end])
             ELSE MergeLoopPrevInput(rc, k + 1, merged)

RECURSIVE MergeLoop(_, _, _)
\* Merge's sweep over the sorted copy rc; cur is Len(merged)
MergeLoop(rc, k, merged) ==
    IF k > Len(rc) THEN merged
    ELSE LET r == rc[k]
             cur == Len(merged)
         IN  IF cur = 0 THEN MergeLoop(rc, k + 1, <<r>>)
             ELSE IF cmp(next(merged[cur].end), r.start) = 0
                  THEN MergeLoop(rc, k + 1, [merged EXCEPT ![cur].end = r.end])
             ELSE IF cmp(merged[cur].end, r.start) < 0
                  THEN MergeLoop(rc, k + 1, Append(merged, r))
             ELSE IF cmp(merged[cur].end, r.end) < 0
                  THEN MergeLoop(rc, k + 1, [merged EXCEPT ![cur].end = r.end])
             ELSE MergeLoop(rc, k + 1, merged)

\* ------------------------------------------------------ IPRanges operations
\* rc := rr.ranges, as IsOverlap takes it: the sort then reorders the receiver
rcSharesArray == TRUE

\* Merge works on rc, a make+copy of the receiver's list: rc and the
\* receiver do not share a backing array.
rcAliasesReceiver == FALSE

Merge(s) ==
    LET n == Len(s.ranges)
        rc == s.ranges
    IN  IF n <= 1 THEN MkSet(s.version, rc, <<>>)
        ELSE LET merged == MergeLoop(sortSlice(rc), 1, <<>>)
             IN  MkSet(s.version, merged, ZeroSlots(n - Len(merged)))

\* IsOverlap: false for fewer than two ranges; else the sort, then whether
\* some range ends at or after the start of the range that follows it
IsOverlap(s) ==
    LET n == Len(s.ranges)
        rc == sortSlice(s.ranges)
    IN  IF n <= 1 THEN FALSE
        ELSE \E i \in 1..(n - 1) : cmp(rc[i].end, rc[i + 1].start) >= 0

\* the receiver as IsOverlap leaves it: rc is the receiver's own list, so
\* the sort reorders it
IsOverlapRecv(s) ==
    IF Len(s.ranges) > 1
    THEN [s EXCEPT !.ranges = sortSlice(s.ranges)]
    ELSE s

\* the receiver as Merge leaves it: the sort is the only store Merge makes
\* outside its result, and it lands in rc
MergeRecv(s) ==
    IF rcAliasesReceiver /\ Len(s.ranges) > 1
    THEN [s EXCEPT !.ranges = sortSlice(s.ranges)]
    ELSE s

\* append(rr.ranges, rs.ranges...) stores in place when the capacity allows
appendInPlace(s, t) == Len(s.spare) >= Len(t.ranges)

dupOf(s, t) ==
    LET n2 == Len(t.ranges) IN
    MkSet(s.version, s.ranges \o t.ranges,
          IF appendInPlace(s, t)
          THEN SubSeq(s.spare, n2 + 1, Len(s.spare))
          ELSE <<>>)

\* Union that appends and merges whatever the families, without the check
\* of the family tags
UnionAnyFamily(s, t) == Merge(dupOf(s, t))

Union(s, t) ==
    IF s.version # t.version THEN Merge(s) ELSE Merge(dupOf(s, t))

\* the receiver as Union leaves it: an in-place append fills its spare
\* slots, and what dup.Merge() does to dup's array it does to the receiver's
UnionRecv(s, t) ==
    IF s.version # t.version THEN MergeRecv(s)
    ELSE IF ~appendInPlace(s, t) THEN s
    ELSE LET n1 == Len(s.ranges)
             d == MergeRecv(dupOf(s, t))
         IN  MkSet(s.version, SubSeq(d.ranges, 1, n1),
                   SubSeq(d.ranges, n1 + 1, Len(d.ranges)) \o d.spare)

RECURSIVE DiffLoop(_, _, _, _, _)
\* Diff's two-pointer sweep (i, j count from 1); it stores to omr[i].start.
\* The result carries the list, the final omr and the final i, j.
DiffLoop(omr, tmr, i, j, ranges) ==
    IF ~(i <= Len(omr) /\ j <= Len(tmr))
    THEN [ranges |-> ranges, omr |-> omr, i |-> i, j |-> j]
    ELSE IF cmp(omr[i].end, tmr[j].start) < 0
         THEN DiffLoop(omr, tmr, i + 1, j, Append(ranges, omr[i]))
    ELSE IF cmp(omr[i].start, tmr[j].end) > 0
         THEN DiffLoop(omr, tmr, i, j + 1, ranges)
    ELSE IF cmp(omr[i].end, tmr[j].end) <= 0
         THEN DiffLoop(omr, tmr, i + 1, j,
                       IF cmp(omr[i].start, tmr[j].start) < 0
                       THEN Append(ranges, MkRange(omr[i].start, prev(tmr[j].start)))
                       ELSE ranges)
    ELSE DiffLoop([omr EXCEPT ![i].start = next(tmr[j].end)], tmr, i, j + 1,
                  IF cmp(omr[i].start, tmr[j].start) < 0
                  THEN Append(ranges, MkRange(omr[i].start, prev(tmr[j].start)))
                  ELSE ranges)

\* the statements after the sweep; omr[i] with i past the end is a fault
DiffTail(omr, tmr, i, j, ranges) ==
    LET n1 == Len(omr)
        n2 == Len(tmr)
        fault == j = n2 + 1 /\ i > n1
        r1 == IF j = n2 + 1 /\ ~fault /\ cmp(tmr[j - 1].end, omr[i].end) < 0
              THEN Append(ranges, omr[i])
              ELSE ranges
        r2 == IF i < n1 THEN r1 \o SubSeq(omr, i + 1, n1) ELSE r1
    IN  [ranges |-> r2, fault |-> fault]

Diff(s, t) ==
    IF s.version # t.version THEN Merge(s)
    ELSE IF Len(s.ranges) = 0 \/ Len(t.ranges) = 0 THEN Merge(s)
    ELSE LET omr == Merge(s).ranges
             tmr == Merge(t).ranges
             sw == DiffLoop(omr, tmr, 1, 1, <<>>)
             out == DiffTail(sw.omr, tmr, sw.i, sw.j, sw.ranges).ranges
         IN  MkSet(s.version, out, ZeroSlots((Len(omr) + Len(tmr)) - Len(out)))

DiffFaults(s, t) ==
    /\ s.version = t.version
    /\ Len(s.ranges) > 0
    /\ Len(t.ranges) > 0
    /\ LET omr == Merge(s).ranges
           tmr == Merge(t).ranges
           sw == DiffLoop(omr, tmr, 1, 1, <<>>)
       IN  DiffTail(sw.omr, tmr, sw.i, sw.j, sw.ranges).fault

RECURSIVE IntersectLoop(_, _, _, _, _)
IntersectLoop(omr, tmr, i, j, ranges) ==
    IF ~(i <= Len(omr) /\ j <= Len(tmr)) THEN ranges
    ELSE LET start == maxXIP(omr[i].start, tmr[j].start)
             end == minXIP(omr[i].end, tmr[j].end)
             out == IF cmp(start, end) <= 0
                    THEN Append(ranges, MkRange(start, end))
                    ELSE ranges
         IN  IF cmp(omr[i].end, tmr[j].end) < 0
             THEN IntersectLoop(omr, tmr, i + 1, j, out)
             ELSE IntersectLoop(omr, tmr, i, j + 1, out)

Intersect(s, t) ==
    IF s.version # t.version THEN Merge(s)
    ELSE IF Len(s.ranges) = 0 \/ Len(t.ranges) = 0 THEN Merge(s)
    ELSE LET omr == Merge(s).ranges
             tmr == Merge(t).ranges
             out == IntersectLoop(omr, tmr, 1, 1, <<>>)
         IN  MkSet(s.version, out,
                   ZeroSlots(max(Len(omr), Len(tmr)) - Len(out)))

\* Size merging first, as an earlier revision of the package did
SizeOfMerged(s) == SizeLoop(Merge(s).ranges, 1, 0)

Size(s) == SizeLoop(s.ranges, 1, 0)

\* what the calls leave of their operands
DiffRecv(s, t) == MergeRecv(s)

DiffArg(s, t) ==
    IF s.version = t.version /\ Len(s.ranges) > 0 /\ Len(t.ranges) > 0
    THEN MergeRecv(t)
    ELSE t

IntersectRecv(s, t) == MergeRecv(s)

IntersectArg(s, t) ==
    IF s.version = t.version /\ Len(s.ranges) > 0 /\ Len(t.ranges) > 0
    THEN MergeRecv(t)
    ELSE t

\* ------------------------------------------------------- parsing (range.go)
\* An input string is modelled by its lexical shape, the shape parse
\* dispatches on:  [k |-> "empty"],  [k |-> "cidr", a, n] (the text holds a
\* "/": a before it, the number n after it),  [k |-> "dash", a, b] (no "/",
\* a before the first "-" and b after it),  [k |-> "addr", a] (neither).
\* The text of an address is its separator and its groups, in full form:
\* four one-byte groups joined by "." or eight two-byte groups joined by
\* ":"; a group that is no number is -1.
MkText(sep, groups) == [sep |-> sep, groups |-> groups]

V6Groups == IPv6len \div 2

GroupMax(sep) == IF sep = "." THEN ByteMax ELSE (ByteBase * ByteBase) - 1

RECURSIVE GroupsVal(_, _, _)
GroupsVal(groups, base, acc) ==
    IF groups = <<>> THEN acc
    ELSE GroupsVal(Tail(groups), base, acc * base + Head(groups))

\* net.ParseIP: the 16-byte form of the address the text spells, or nil
ParseIP(t) ==
    IF /\ t.sep = "."
       /\ Len(t.groups) = IPv4len
       /\ \A k \in DOMAIN t.groups : t.groups[k] \in 0..ByteMax
    THEN To16(MkIP(IPv4len, GroupsVal(t.groups, ByteBase, 0)))
    ELSE IF /\ t.sep = ":"
            /\ Len(t.groups) = V6Groups
            /\ \A k \in DOMAIN t.groups : t.groups[k] \in 0..GroupMax(":")
         THEN MkIP(IPv6len, GroupsVal(t.groups, ByteBase * ByteBase, 0))
         ELSE NilIP

\* net.ParseCIDR: the address (16-byte form), the network address and the
\* count of host bits; the network has 4 bytes for a dotted text, 16 otherwise
ParseCIDR(t, n) ==
    LET ip == ParseIP(t)
        iplen == IF t.sep = "." THEN IPv4len ELSE IPv6len
        bits == iplen * BitsPerByte
    IN  IF ip = NilIP \/ n < 0 \/ n > bits THEN [ok |-> FALSE]
        ELSE LET host == bits - n
                 a == IF iplen = IPv4len THEN To4(ip).val ELSE ip.val
             IN  [ok |-> TRUE, ip |-> ip, host |-> host,
                  net |-> MkIP(iplen, a - (a % (2 ^ host)))]

\* before[:index+1] + after: the text before the last separator of before,
\* followed by after
JoinSuffix(before, after) ==
    MkText(IF after.sep \in {"", before.sep} THEN before.sep ELSE "mixed",
           SubSeq(before.groups, 1, Len(before.groups) - 1) \o after.groups)

ParseFail == [ok |-> FALSE, r |-> ZeroRange]

ParseOk(s, e) == [ok |-> TRUE, r |-> MkRange(s, e)]

parse(r) ==
    IF r.k = "empty" THEN ParseFail
    ELSE IF r.k = "cidr"
    THEN LET c == ParseCIDR(r.a, r.n) IN
         IF ~c.ok THEN ParseFail
         ELSE LET lastIP == MkIP(c.net.len, c.net.val + ((2 ^ c.host) - 1))
              IN  ParseOk(normalizeIP(c.ip), normalizeIP(lastIP))
    ELSE IF r.k = "dash"
    THEN LET startIP == ParseIP(r.a)
             endIP == ParseIP(r.b)
         IN  IF startIP = NilIP THEN ParseFail
             ELSE IF endIP = NilIP
             THEN LET endIP2 == ParseIP(JoinSuffix(r.a, r.b))
                      start == normalizeIP(startIP)
                      end == normalizeIP(endIP2)
                  IN  IF endIP2 = NilIP THEN ParseFail
                      ELSE IF cmp(end, start) < 0 THEN ParseFail
                      ELSE ParseOk(start, end)
             ELSE LET start == normalizeIP(startIP)
                      end == normalizeIP(endIP)
                  IN  IF cmp(end, start) < 0 THEN ParseFail
                      ELSE ParseOk(start, end)
    ELSE LET ip == ParseIP(r.a) IN
         IF ip = NilIP THEN ParseFail
         ELSE ParseOk(normalizeIP(ip), normalizeIP(ip))

\* ------------------------------------------------- ipRange.String (range.go)
RECURSIVE BitLen(_)
\* big.Int.BitLen: the number of bits of |i|, 0 for 0
BitLen(i) == IF i = 0 THEN 0 ELSE 1 + BitLen(Abs(i) \div 2)

RECURSIVE IsPow2(_)
IsPow2(i) == i = 1 \/ (i > 1 /\ i % 2 = 0 /\ IsPow2(i \div 2))

\* inc.And(inc, dv).Sign() == 0 with dv = inc - 1: in two's complement
\* inc & (inc - 1) is zero for 0 and for the powers of two, and negative for
\* a negative inc
andIsZero(inc) == inc = 0 \/ IsPow2(inc)

\* the n digits of v in the base, most significant first
Digits(v, base, n) == [k \in 1..n |-> (v \div (base ^ (n - k))) % base]

\* the text net.IP.String prints: dotted for a 4-byte address and for a
\* 16-byte IPv4-mapped one, groups joined by ":" for another 16-byte
\* address, and no address text ("<nil>", "?hex") for any other length
IPString(ip) ==
    IF To4(ip) # NilIP THEN MkText(".", Digits(To4(ip).val, ByteBase, IPv4len))
    ELSE IF ip.len = IPv6len
         THEN MkText(":", Digits(ip.val, ByteBase * ByteBase, V6Groups))
         ELSE MkText("?", <<>>)

\* net.CIDRMask(ones, bits): a mask of bits/8 bytes, nil when ones is not
\* in 0..bits
NilMask == [len |-> -1, ones |-> 0]

CIDRMask(ones, bits) ==
    IF ones < 0 \/ ones > bits THEN NilMask
    ELSE [len |-> bits \div BitsPerByte, ones |-> ones]

\* net.IP.Mask: a 16-byte mask with twelve leading 0xff bytes is cut to 4
\* bytes for a 4-byte address, a 16-byte IPv4-mapped address is cut to 4
\* bytes for a 4-byte mask; nil when the lengths then differ
Mask(ip, mask) ==
    LET v4bits == IPv4len * BitsPerByte
        v6bits == IPv6len * BitsPerByte
        m == IF mask.len = IPv6len /\ ip.len = IPv4len
                  /\ mask.ones >= v6bits - v4bits
             THEN [len |-> IPv4len, ones |-> mask.ones - (v6bits - v4bits)]
             ELSE mask
        a == IF m.len = IPv4len /\ ip.len = IPv6len
                  /\ ip.val \div (ByteBase ^ IPv4len) = V4InV6Prefix
             THEN MkIP(IPv4len, ip.val % (ByteBase ^ IPv4len))
             ELSE ip
    IN  IF SliceLen(a) # SliceLen(m) THEN NilIP
        ELSE IF SliceLen(a) = 0 THEN MkIP(0, 0)
        ELSE LET host == (a.len * BitsPerByte) - m.ones
             IN  MkIP(a.len, a.val - (a.val % (2 ^ host)))

\* net.IPNet.String: the network number (4-byte form when there is one),
\* "/" and the mask's count of ones; "<nil>" when address and mask do not fit
IPNetString(ip, mask) ==
    LET nn == IF To4(ip) # NilIP THEN To4(ip)
              ELSE IF ip.len = IPv6len THEN ip ELSE NilIP
        v4bits == IPv4len * BitsPerByte
        v6bits == IPv6len * BitsPerByte
        ones == IF mask.len = IPv4len
                THEN (IF nn.len = IPv4len THEN mask.ones ELSE -1)
                ELSE IF mask.len = IPv6len
                THEN (IF nn.len = IPv4len
                      THEN max(mask.ones - (v6bits - v4bits), 0)
                      ELSE mask.ones)
                ELSE -1
    IN  IF nn = NilIP \/ ones < 0 THEN [k |-> "addr", a |-> MkText("?", <<>>)]
        ELSE [k |-> "cidr", a |-> IPString(nn), n |-> ones]

\* the start and end joined by "-"
dashString(r) == [k |-> "dash", a |-> IPString(r.start), b |-> IPString(r.end)]

\* String with the alignment test left out
StringUnaligned(r) ==
    LET inc == size(r)
        bl == BitLen(inc - 1)
        bits == IF version(r.start) = IPv6 THEN IPv6len * BitsPerByte
                ELSE IPv4len * BitsPerByte
    IN  IF bl = 0 THEN [k |-> "addr", a |-> IPString(r.start)]
        ELSE IF andIsZero(inc)
        THEN IPNetString(r.start, CIDRMask(bits - bl, bits))
        ELSE dashString(r)

String(r) ==
    LET inc == size(r)
        dv == inc - 1
        bl == BitLen(dv)
        bits == IF version(r.start) = IPv6 THEN IPv6len * BitsPerByte
                ELSE IPv4len * BitsPerByte
        ip == r.start
        mask == CIDRMask(bits - bl, bits)
    IN  IF bl = 0 THEN [k |-> "addr", a |-> IPString(r.start)]
        ELSE IF andIsZero(inc) /\ IPEqual(Mask(ip, mask), ip)
        THEN IPNetString(ip, mask)
        ELSE dashString(r)

\* ------------------------------------------------- ipIterator (iterator.go)
\* nextN(n): a copy of the address for n = 0, else the bytes of the sum
nextN(ip, n) ==
    IF n = 0 THEN MkIP(SliceLen(ip), ip.val) ELSE intToIP(ipToInt(ip) + n)

\* An ipIterator: the range list it shares with the set, rangeIndex (from
\* 0, as in the code), current (NilIP while nil) and freeSize (NoInt while
\* the pointer is nil).
NoInt == -1000000

MkIter(ranges, ri, cur, free) ==
    [kind |-> "ip", ranges |-> ranges, rangeIndex |-> ri, current |-> cur,
     freeSize |-> free]

IPIterator(s) == MkIter(s.ranges, 0, NilIP, NoInt)

\* what a call returns: an address, nil, or no return at all because an
\* index expression ran out of range
RetIP(ip) == [kind |-> "ip", ip |-> ip]

RetNil == [kind |-> "nil"]

RetFault == [kind |-> "fault"]

\* a step of an iterator: the iterator as the call leaves it and the result
Step(it, out) == [it |-> it, out |-> out]

\* ipIterator.Next
ipNext(ii) ==
    LET n == Len(ii.ranges)
        ri == ii.rangeIndex
    IN  IF n = 0 THEN Step(ii, RetNil)
        ELSE IF ii.current = NilIP
        THEN Step([ii EXCEPT !.freeSize = size(ii.ranges[1]) - 1,
                             !.current = ii.ranges[1].start],
                  RetIP(ii.ranges[1].start))
        ELSE IF ri >= n THEN Step(ii, RetFault)
        ELSE IF ~IPEqual(ii.current, ii.ranges[ri + 1].end)
        THEN LET c == next(ii.current)
             IN  Step([ii EXCEPT !.freeSize = ii.freeSize - 1, !.current = c],
                      RetIP(c))
        ELSE IF ri + 1 = n THEN Step([ii EXCEPT !.rangeIndex = ri + 1], RetNil)
        ELSE Step([ii EXCEPT !.rangeIndex = ri + 1,
                             !.freeSize = size(ii.ranges[ri + 2]) - 1,
                             !.current = ii.ranges[ri + 2].start],
                  RetIP(ii.ranges[ri + 2].start))

RECURSIVE ipNextNFresh(_, _)
\* the loop of NextN for an iterator whose current is nil
ipNextNFresh(ii, n) ==
    LET l == Len(ii.ranges)
        ri == ii.rangeIndex
    IN  IF ri >= l THEN Step(ii, RetFault)
        ELSE LET sz == size(ii.ranges[ri + 1]) IN
             IF n <= sz
             THEN LET c == nextN(ii.ranges[ri + 1].start, n - 1)
                  IN  Step([ii EXCEPT !.freeSize = sz - n, !.current = c], RetIP(c))
             ELSE IF ri + 1 = l THEN Step([ii EXCEPT !.rangeIndex = ri + 1], RetNil)
             ELSE ipNextNFresh([ii EXCEPT !.rangeIndex = ri + 1], n - sz)

\* ipIterator.NextN
ipNextN(ii, n0) ==
    LET l == Len(ii.ranges)
        ri == ii.rangeIndex
        n == IF n0 <= 0 THEN 1 ELSE n0
    IN  IF l = 0 THEN Step(ii, RetNil)
        ELSE IF ii.current = NilIP THEN ipNextNFresh(ii, n)
        ELSE IF n <= ii.freeSize
        THEN LET c == nextN(ii.current, n)
             IN  Step([ii EXCEPT !.freeSize = ii.freeSize - n, !.current = c],
                      RetIP(c))
        ELSE IF ri + 1 = l THEN Step([ii EXCEPT !.rangeIndex = ri + 1], RetNil)
        ELSE IF ri + 1 > l THEN Step([ii EXCEPT !.rangeIndex = ri + 1], RetFault)
        ELSE LET m == n - ii.freeSize
                 c == nextN(ii.ranges[ri + 2].start, m - 1)
             IN  Step([ii EXCEPT !.rangeIndex = ri + 1,
                                 !.freeSize = size(ii.ranges[ri + 2]) - m,
                                 !.current = c],
                      RetIP(c))

\* Reset that clears current and leaves rangeIndex where it is
ipResetKeepsIndex(ii) == [ii EXCEPT !.current = NilIP]

\* ipIterator.Reset
ipReset(ii) == [ii EXCEPT !.rangeIndex = 0, !.current = NilIP]

\* ---------------------------------------------- blockIterator (iterator.go)
\* Slice(start, end) is not part of the sources at hand. The walk over the
\* ranges is modelled from its description: offsets into the addresses of
\* the list in list order, the first and the last contributing range trimmed
\* to the window. The treatment of the two offsets is the one the table of
\* TestIPRangesSlice fixes: a negative offset is counted from the total size;
\* a start still below 0 becomes 0 ("start < 0 && end > size"), an end at or
\* beyond the size becomes size - 1 (same case); a start at or beyond the
\* size ("start out of ranges": Slice(6, 6) of five addresses) and an end
\* still below 0 ("end out of ranges": Slice(-100, -100)) give the empty set.
FromEnd(i, sz) == IF i < 0 THEN i + sz ELSE i

\* start raised to 0 as well as lowered to size - 1
SliceFromClamped(i, sz) ==
    LET j == FromEnd(i, sz)
    IN  IF j < 0 THEN 0 ELSE IF j > sz - 1 THEN sz - 1 ELSE j

SliceFrom(i, sz) == LET j == FromEnd(i, sz) IN IF j < 0 THEN 0 ELSE j

SliceTo(i, sz) == LET j == FromEnd(i, sz) IN IF j > sz - 1 THEN sz - 1 ELSE j

RECURSIVE SliceWalk(_, _, _, _, _, _)
SliceWalk(ranges, k, base, a, b, out) ==
    IF k > Len(ranges) THEN out
    ELSE LET r == ranges[k]
             sz == size(r)
             lo == IF a - base > 0 THEN a - base ELSE 0
             hi == IF b - base < sz - 1 THEN b - base ELSE sz - 1
             cut == MkRange(MkIP(r.start.len, r.start.val + lo),
                            MkIP(r.start.len, r.start.val + hi))
         IN  SliceWalk(ranges, k + 1, base + sz, a, b,
                       IF lo <= hi THEN Append(out, cut) ELSE out)

Slice(s, start, end) ==
    LET sz == SizeLoop(s.ranges, 1, 0)
        a == SliceFrom(start, sz)
        b == SliceTo(end, sz)
    IN  IF sz <= 0 \/ a > b THEN MkSet(s.version, <<>>, <<>>)
        ELSE MkSet(s.version, SliceWalk(s.ranges, 1, 0, a, b, <<>>), <<>>)

\* A blockIterator: the set, its size at construction, the block size and
\* the offsets start and end (NoInt while the pointers are nil).
BlockIterator(s, blockSize) ==
    [kind |-> "block", set |-> s, size |-> SizeLoop(s.ranges, 1, 0),
     blockSize |-> IF blockSize <= 0 THEN 1 ELSE blockSize,
     start |-> NoInt, end |-> NoInt]

RetSet(s) == [kind |-> "set", set |-> s]

\* Next that moves start and leaves end where it is
blockNextKeepsEnd(bi) ==
    IF bi.size = 0 THEN Step(bi, RetNil)
    ELSE IF bi.start = NoInt
    THEN Step([bi EXCEPT !.start = 0, !.end = bi.blockSize - 1],
              RetSet(Slice(bi.set, 0, bi.blockSize - 1)))
    ELSE LET st == bi.start + bi.blockSize IN
         IF st >= bi.size THEN Step([bi EXCEPT !.start = st], RetNil)
         ELSE Step([bi EXCEPT !.start = st], RetSet(Slice(bi.set, st, bi.end)))

\* blockIterator.Next
blockNext(bi) ==
    IF bi.size = 0 THEN Step(bi, RetNil)
    ELSE IF bi.start = NoInt
    THEN Step([bi EXCEPT !.start = 0, !.end = bi.blockSize - 1],
              RetSet(Slice(bi.set, 0, bi.blockSize - 1)))
    ELSE LET st == bi.start + bi.blockSize IN
         IF st >= bi.size THEN Step([bi EXCEPT !.start = st], RetNil)
         ELSE Step([bi EXCEPT !.start = st, !.end = bi.end + bi.blockSize],
                   RetSet(Slice(bi.set, st, bi.end + bi.blockSize)))

\* blockIterator.NextN
blockNextN(bi, n0) ==
    LET n == IF n0 <= 0 THEN 1 ELSE n0 IN
    IF bi.size = 0 THEN Step(bi, RetNil)
    ELSE IF bi.start = NoInt
    THEN LET st == (n - 1) * bi.blockSize
             en == (st + bi.blockSize) - 1
         IN  Step([bi EXCEPT !.start = st, !.end = en],
                  RetSet(Slice(bi.set, st, en)))
    ELSE LET step == n * bi.blockSize
             st == bi.start + step
         IN  IF st >= bi.size THEN Step([bi EXCEPT !.start = st], RetNil)
             ELSE Step([bi EXCEPT !.start = st, !.end = bi.end + step],
                       RetSet(Slice(bi.set, st, bi.end + step)))

\* blockIterator.Reset
blockReset(bi) == [bi EXCEPT !.start = NoInt, !.end = NoInt]

\* ----------------------------------------------- cidrIterator (iterator.go)
RECURSIVE zeroBitsOfByte(_)
\* the inner loop of righthandZeroBits on a byte that is not zero
zeroBitsOfByte(b) == IF b % 2 = 1 THEN 0 ELSE 1 + zeroBitsOfByte(b \div 2)

RECURSIVE zeroBitsLoop(_, _, _)
\* the outer loop of righthandZeroBits: rest holds the i bytes not yet seen
zeroBitsLoop(rest, i, n) ==
    IF i = 0 THEN n
    ELSE LET b == rest % ByteBase IN
         IF b = 0 THEN zeroBitsLoop(rest \div ByteBase, i - 1, n + BitsPerByte)
         ELSE n + zeroBitsOfByte(b)

righthandZeroBits(bb) == zeroBitsLoop(bb.val, SliceLen(bb), 0)

\* A cidrIterator: ranges, rangeIndex (from 0), ipBitLen, lastInt and
\* current (NoInt while the pointers are nil).
MkCIDRIter(ranges, ri, bits, last, cur) ==
    [kind |-> "cidr", ranges |-> ranges, rangeIndex |-> ri, ipBitLen |-> bits,
     lastInt |-> last, current |-> cur]

CIDRIterator(s) ==
    IF Len(s.ranges) # 0
    THEN LET r == s.ranges[1]
         IN  MkCIDRIter(s.ranges, 0, SliceLen(r.start) * BitsPerByte,
                        ipToInt(r.end), ipToInt(r.start))
    ELSE MkCIDRIter(s.ranges, 0, 0, NoInt, NoInt)

\* what cidrIterator.Next returns when it is not nil: a net.IPNet
RetNet(ip, mask) == [kind |-> "net", ip |-> ip, mask |-> mask]

\* cidrIterator.next; a shift by a negative count (delta <= 0) does not
\* return
cidrStep(ci) ==
    LET delta == (ci.lastInt - ci.current) + 1
        curIP == intToIP(ci.current)
        nbits == min(righthandZeroBits(curIP), BitLen(delta) - 1)
    IN  IF nbits < 0 THEN Step(ci, RetFault)
        ELSE Step([ci EXCEPT !.current = ci.current + 2 ^ nbits],
                  RetNet(curIP, CIDRMask(ci.ipBitLen - nbits, ci.ipBitLen)))

\* cidrIterator.Next
cidrNext(ci) ==
    LET n == Len(ci.ranges)
        ri == ci.rangeIndex + 1
    IN  IF n = 0 THEN Step(ci, RetNil)
        ELSE IF ci.current <= ci.lastInt THEN cidrStep(ci)
        ELSE IF ri = n THEN Step([ci EXCEPT !.rangeIndex = ri], RetNil)
        ELSE IF ri > n THEN Step([ci EXCEPT !.rangeIndex = ri], RetFault)
        ELSE cidrStep([ci EXCEPT !.rangeIndex = ri,
                                 !.lastInt = ipToInt(ci.ranges[ri + 1].end),
                                 !.current = ipToInt(ci.ranges[ri + 1].start)])

\* the three calls on either iterator
itNext(it) == IF it.kind = "ip" THEN ipNext(it) ELSE blockNext(it)

itNextN(it, n) == IF it.kind = "ip" THEN ipNextN(it, n) ELSE blockNextN(it, n)

itReset(it) == IF it.kind = "ip" THEN ipReset(it) ELSE blockReset(it)

\* a nil *IPRanges
NilSet == MkSet(-1, <<>>, <<>>)

RECURSIVE ParseLoopSkipsBad(_, _, _, _)
\* Parse's loop passing over an unparseable string instead of returning
ParseLoopSkipsBad(rs, i, ver, ranges) ==
    IF i > Len(rs)
    THEN [set |-> MkSet(ver, ranges, <<>>), err |-> "none"]
    ELSE LET v == parse(rs[i])
             ver2 == IF i = 1
                     THEN (IF To4(v.r.start) = NilIP THEN IPv6 ELSE IPv4)
                     ELSE ver
         IN  IF ~v.ok THEN ParseLoopSkipsBad(rs, i + 1, ver2, ranges)
             ELSE IF version(v.r.start) # ver2
                  THEN [set |-> NilSet, err |-> "dual"]
                  ELSE ParseLoopSkipsBad(rs, i + 1, ver2, Append(ranges, v.r))

RECURSIVE ParseLoop(_, _, _, _)
\* Parse's loop over rs from index i, with the family and ranges so far
ParseLoop(rs, i, ver, ranges) ==
    IF i > Len(rs)
    THEN [set |-> MkSet(ver, ranges, <<>>), err |-> "none"]
    ELSE LET v == parse(rs[i])
             ver2 == IF i = 1
                     THEN (IF To4(v.r.start) = NilIP THEN IPv6 ELSE IPv4)
                     ELSE ver
         IN  IF ~v.ok THEN [set |-> NilSet, err |-> "invalid"]
             ELSE IF version(v.r.start) # ver2
                  THEN [set |-> NilSet, err |-> "dual"]
                  ELSE ParseLoop(rs, i + 1, ver2, Append(ranges, v.r))

Parse(rs) ==
    IF Len(rs) = 0 THEN [set |-> NilSet, err |-> "invalid"]
    ELSE ParseLoop(rs, 1, Unknown, <<>>)

\* ------------------------------------------------------------------- state
VARIABLES rr, rs, call, res, num, fed, strs, pres, pone, text, back, ask,
          it, tape, gor

vars == <<rr, rs, call, res, num, fed, strs, pres, pone, text, back, ask,
          it, tape, gor>>

algVars == <<rr, rs, call, res, num, fed>>

parseVars == <<strs, pres, pone, text, back>>

\* what the runs of a specification other than its own leave alone
idleVars == <<ask, it, tape, gor>>

NoSet == MkSet(-1, <<>>, <<>>)

\* no goroutines at work
NoGor == <<>>

NoCall == [op |-> "none", recv |-> NoSet, arg |-> NoSet]

NoParse == [set |-> NoSet, err |-> "idle"]

NoParseOne == [ok |-> FALSE, r |-> ZeroRange, done |-> FALSE]

\* no string printed yet
NoText == [k |-> "none"]

\* no address asked for yet
NoAsk == [ip |-> NilIP, ans |-> FALSE, done |-> FALSE]

\* no iterator made
NoIter == [kind |-> "none"]

\* the calls made on the iterator since it was made or last reset, their
\* results, whether it was reset, the iterator before the last call and
\* whether Reset found the iterator beyond its first range or block
NoTape == [ops |-> <<>>, outs |-> <<>>, reset |-> FALSE, pre |-> NoIter,
           moved |-> FALSE]

\* the zero value IPRanges{}
ZeroSet == MkSet(Unknown, <<>>, <<>>)

\* Operand sets are built from the addresses of one region of one family:
\* the lowest addresses (leading bytes zero), the lowest addresses with a
\* non-zero leading byte, and the two ends of the address space.
Lead(n) == ByteBase ^ (n - 1)

Top(n) == (ByteBase ^ n) - 1

Regions ==
    { [fam |-> IPv4, len |-> IPv4len, vals |-> {0, 1, 2}],
      [fam |-> IPv4, len |-> IPv4len,
       vals |-> {Lead(IPv4len), Lead(IPv4len) + 1, Lead(IPv4len) + 2}],
      [fam |-> IPv4, len |-> IPv4len,
       vals |-> {0, Top(IPv4len) - 1, Top(IPv4len)}],
      [fam |-> IPv6, len |-> IPv6len, vals |-> {0, 1, 2}],
      [fam |-> IPv6, len |-> IPv6len,
       vals |-> {Lead(IPv6len), Lead(IPv6len) + 1, Lead(IPv6len) + 2}] }

RangesOf(reg) ==
    { MkRange(MkIP(reg.len, a), MkIP(reg.len, b)) :
        <<a, b>> \in {p \in reg.vals \X reg.vals : p[1] <= p[2]} }

ListsOf(reg, n) == UNION { [1..k -> RangesOf(reg)] : k \in 0..n }

\* the regions the operands of different families are drawn from
LowRegion(fam) ==
    [fam |-> fam, len |-> IF fam = IPv4 THEN IPv4len ELSE IPv6len,
     vals |-> {0, 1, 2}]

\* the operands: two lists over one region under the region's family, or
\* two zero values, or a list of one family against a list of the other or
\* against the zero value
Init ==
    /\ \/ \E reg \in Regions :
            \E a \in ListsOf(reg, MaxTotal) :
              \E b \in ListsOf(reg, MaxTotal - Len(a)) :
                /\ rr = MkSet(reg.fam, a, <<>>)
                /\ rs = MkSet(reg.fam, b, <<>>)
       \/ (rr = ZeroSet /\ rs = ZeroSet)
       \/ \E fam \in {IPv4, IPv6} :
            \E a \in ListsOf(LowRegion(fam), MaxTotal) :
              \/ \E b \in ListsOf(LowRegion(IPv4 + IPv6 - fam), MaxTotal - Len(a)) :
                    /\ rr = MkSet(fam, a, <<>>)
                    /\ rs = MkSet(IPv4 + IPv6 - fam, b, <<>>)
              \/ (rr = MkSet(fam, a, <<>>) /\ rs = ZeroSet)
    /\ call = NoCall
    /\ res = NoSet
    /\ num = -1
    /\ fed = 0
    /\ strs = <<>>
    /\ pres = NoParse
    /\ pone = NoParseOne
    /\ text = NoText
    /\ back = NoParseOne
    /\ ask = NoAsk
    /\ gor = NoGor
    /\ it = NoIter
    /\ tape = NoTape

DoMerge ==
    /\ call = NoCall
    /\ call' = [op |-> "Merge", recv |-> rr, arg |-> NoSet]
    /\ res' = Merge(rr)
    /\ rr' = MergeRecv(rr)
    /\ num' = -1
    /\ UNCHANGED <<rs, fed, parseVars, idleVars>>

DoUnion ==
    /\ call = NoCall
    /\ call' = [op |-> "Union", recv |-> rr, arg |-> rs]
    /\ res' = Union(rr, rs)
    /\ rr' = UnionRecv(rr, rs)
    /\ num' = -1
    /\ UNCHANGED <<rs, fed, parseVars, idleVars>>

\* an index fault in Diff ends the call without a result
DoDiff ==
    /\ call = NoCall
    /\ LET fault == DiffFaults(rr, rs) IN
       /\ call' = [op |-> IF fault THEN "DiffFault" ELSE "Diff",
                   recv |-> rr, arg |-> rs]
       /\ res' = IF fault THEN NoSet ELSE Diff(rr, rs)
    /\ rr' = DiffRecv(rr, rs)
    /\ rs' = DiffArg(rr, rs)
    /\ num' = -1
    /\ UNCHANGED <<fed, parseVars, idleVars>>

DoIntersect ==
    /\ call = NoCall
    /\ call' = [op |-> "Intersect", recv |-> rr, arg |-> rs]
    /\ res' = Intersect(rr, rs)
    /\ rr' = IntersectRecv(rr, rs)
    /\ rs' = IntersectArg(rr, rs)
    /\ num' = -1
    /\ UNCHANGED <<fed, parseVars, idleVars>>

DoSize ==
    /\ call = NoCall
    /\ call' = [op |-> "Size", recv |-> rr, arg |-> NoSet]
    /\ num' = Size(rr)
    /\ res' = NoSet
    /\ UNCHANGED <<rr, rs, fed, parseVars, idleVars>>

\* the caller keeps the returned set as its next receiver
Assign ==
    /\ res # NoSet
    /\ fed < MaxFeeds
    /\ rr' = res
    /\ res' = NoSet
    /\ call' = NoCall
    /\ num' = -1
    /\ fed' = fed + 1
    /\ UNCHANGED <<rs, parseVars, idleVars>>

\* the caller drops the result and goes on with the operands as they are
Drop ==
    /\ call # NoCall
    /\ call' = NoCall
    /\ res' = NoSet
    /\ num' = -1
    /\ UNCHANGED <<rr, rs, fed, parseVars, idleVars>>

Next ==
    \/ DoMerge
    \/ DoUnion
    \/ DoDiff
    \/ DoIntersect
    \/ DoSize
    \/ Assign
    \/ Drop

Spec == Init /\ [][Next]_vars

\* ------------------------------------------------------ the parsing runs
\* Input strings are drawn from a few address texts of each family, one
\* unparseable text, and the prefix lengths and suffixes that go with them.
V4Text(v) == MkText(".", Digits(v, ByteBase, IPv4len))

V6Text(v) == MkText(":", Digits(v, ByteBase * ByteBase, V6Groups))

BadText == MkText(".", <<0, 0, 0, -1>>)

\* the IPv6 address ::fffe:0:0, one bit pattern below the IPv4-mapped block
BelowMapped == (V4InV6Prefix - 1) * (ByteBase ^ IPv4len)

V4Texts == { V4Text(v) : v \in {1, Lead(IPv4len), Lead(IPv4len) + 1} }

V6Texts == { V6Text(v) : v \in {1, Lead(IPv6len) + 1, BelowMapped} }

AddrTexts == V4Texts \cup V6Texts \cup {BadText}

Suffixes == { MkText("", <<g>>) : g \in {0, 1} }

BitsOf(t) == (IF t.sep = "." THEN IPv4len ELSE IPv6len) * BitsPerByte

PrefixesOf(t) ==
    { BitsOf(t) + 1, BitsOf(t), BitsOf(t) - 1, BitsOf(t) - 2,
      BitsOf(t) - ((IPv4len * BitsPerByte) + 1) }

SampleStrs ==
    {[k |-> "empty"]}
      \cup { [k |-> "addr", a |-> t] : t \in AddrTexts }
      \cup UNION { { [k |-> "cidr", a |-> t, n |-> n] : n \in PrefixesOf(t) } :
                   t \in AddrTexts }
      \cup { [k |-> "dash", a |-> t, b |-> u] :
               t \in AddrTexts, u \in AddrTexts \cup Suffixes }

\* the strings the multi-string runs combine: one of each shape and family
ListStrs ==
    { [k |-> "empty"],
      [k |-> "addr", a |-> BadText],
      [k |-> "addr", a |-> V4Text(Lead(IPv4len))],
      [k |-> "addr", a |-> V6Text(Lead(IPv6len) + 1)],
      [k |-> "cidr", a |-> V4Text(Lead(IPv4len)), n |-> BitsOf(V4Text(0)) - 1],
      [k |-> "cidr", a |-> V6Text(1), n |-> BitsOf(V6Text(0)) + 1],
      [k |-> "dash", a |-> V4Text(1), b |-> MkText("", <<0>>)],
      [k |-> "dash", a |-> V6Text(1), b |-> MkText("", <<1>>)],
      [k |-> "dash", a |-> V4Text(1), b |-> V6Text(1)] }

InitParse ==
    /\ strs \in { <<s>> : s \in SampleStrs }
                  \cup UNION { [1..k -> ListStrs] : k \in 0..MaxStrs }
    /\ pres = NoParse
    /\ pone = NoParseOne
    /\ text = NoText
    /\ back = NoParseOne
    /\ ask = NoAsk
    /\ gor = NoGor
    /\ it = NoIter
    /\ tape = NoTape
    /\ rr = ZeroSet
    /\ rs = ZeroSet
    /\ call = NoCall
    /\ res = NoSet
    /\ num = -1
    /\ fed = 0

\* Parse(rs...)
DoParse ==
    /\ pres = NoParse
    /\ pres' = Parse(strs)
    /\ UNCHANGED <<strs, pone, text, back, algVars, idleVars>>

\* parse(r) on a single string
DoParseOne ==
    /\ Len(strs) = 1
    /\ ~pone.done
    /\ pone' = [ok |-> parse(strs[1]).ok, r |-> parse(strs[1]).r, done |-> TRUE]
    /\ UNCHANGED <<strs, pres, text, back, algVars, idleVars>>

\* r.String() on the range a single-string parse returned
DoString ==
    /\ pone.done
    /\ pone.ok
    /\ text = NoText
    /\ text' = String(pone.r)
    /\ UNCHANGED <<strs, pres, pone, back, algVars, idleVars>>

\* parse of the string String printed
DoReparse ==
    /\ text # NoText
    /\ ~back.done
    /\ back' = [ok |-> parse(text).ok, r |-> parse(text).r, done |-> TRUE]
    /\ UNCHANGED <<strs, pres, pone, text, algVars, idleVars>>

NextParse ==
    \/ DoParse
    \/ DoParseOne
    \/ DoString
    \/ DoReparse

SpecParse == InitParse /\ [][NextParse]_vars

\* ------------------------------------------------------ the Contains runs
\* the sets asked: a list over one region, or the zero value
InitContains ==
    /\ \/ \E reg \in Regions :
            \E a \in ListsOf(reg, MaxAsked) : rr = MkSet(reg.fam, a, <<>>)
       \/ rr = ZeroSet
    /\ rs = ZeroSet
    /\ call = NoCall
    /\ res = NoSet
    /\ num = -1
    /\ fed = 0
    /\ strs = <<>>
    /\ pres = NoParse
    /\ pone = NoParseOne
    /\ text = NoText
    /\ back = NoParseOne
    /\ ask = NoAsk
    /\ gor = NoGor
    /\ it = NoIter
    /\ tape = NoTape

\* the addresses asked for: those at and next to the bounds of the set's
\* ranges and the lowest ones, as 4-byte slices, as 16-byte IPv4-mapped
\* slices and as 16-byte IPv6 slices, and slices that are no address
AskedIPs(s) ==
    LET pts == UNION { {ipToInt(s.ranges[k].start), ipToInt(s.ranges[k].end)} :
                         k \in DOMAIN s.ranges }
        near == { w \in {0, 1} \cup UNION { {v - 1, v, v + 1} : v \in pts } : w >= 0 }
        v4 == { MkIP(IPv4len, w) : w \in { x \in near : x <= Top(IPv4len) } }
        v6 == { MkIP(IPv6len, w) : w \in { x \in near : x <= Top(IPv6len) } }
    IN  v4 \cup v6 \cup { To16(a) : a \in v4 }
           \cup { NilIP, MkIP(0, 0), MkIP(1, 1), MkIP(IPv4len + 1, Lead(IPv4len + 1)) }

\* rr.Contains(ip)
DoContains ==
    /\ ~ask.done
    /\ \E ip \in AskedIPs(rr) :
         ask' = [ip |-> ip, ans |-> Contains(rr, ip), done |-> TRUE]
    /\ UNCHANGED <<algVars, parseVars, it, tape, gor>>

NextContains == DoContains

SpecContains == InitContains /\ [][NextContains]_vars

\* ------------------------------------------------------- IsOverlap runs
\* the receivers of IsOverlap: the sets of the Contains runs, lists in any
\* order
InitOverlap == InitContains

\* IsOverlap; num keeps the answer, 1 for true and 0 for false
DoIsOverlap ==
    /\ call = NoCall
    /\ call' = [op |-> "IsOverlap", recv |-> rr, arg |-> NoSet]
    /\ num' = IF IsOverlap(rr) THEN 1 ELSE 0
    /\ rr' = IsOverlapRecv(rr)
    /\ res' = NoSet
    /\ UNCHANGED <<rs, fed, parseVars, idleVars>>

NextOverlap == DoIsOverlap

SpecOverlap == InitOverlap /\ [][NextOverlap]_vars

\* ------------------------------------------------------ the iterator runs
\* The sets iterated are lists over two neighbouring addresses: the lowest
\* two (leading bytes zero) and the lowest two of full byte length.
IterRegions ==
    { [fam |-> IPv4, len |-> IPv4len, vals |-> {0, 1}],
      [fam |-> IPv4, len |-> IPv4len, vals |-> {1, 2}],
      [fam |-> IPv4, len |-> IPv4len,
       vals |-> {Lead(IPv4len), Lead(IPv4len) + 1}],
      [fam |-> IPv6, len |-> IPv6len,
       vals |-> {Lead(IPv6len), Lead(IPv6len) + 1}] }

InitIter ==
    /\ \E reg \in IterRegions :
         \E a \in ListsOf(reg, MaxIterRanges) :
           /\ rr = MkSet(reg.fam, a, <<>>)
           /\ it \in {IPIterator(rr)} \cup { BlockIterator(rr, b) : b \in (-1)..MaxN }
    /\ tape = NoTape
    /\ rs = ZeroSet
    /\ call = NoCall
    /\ res = NoSet
    /\ num = -1
    /\ fed = 0
    /\ strs = <<>>
    /\ pres = NoParse
    /\ pone = NoParseOne
    /\ text = NoText
    /\ back = NoParseOne
    /\ ask = NoAsk
    /\ gor = NoGor

\* a call can be made: the bound on calls is not reached and no earlier
\* call ended in a fault
CanCall ==
    /\ Len(tape.ops) < MaxCalls
    /\ \A k \in DOMAIN tape.outs : tape.outs[k] # RetFault

Taped(op, st) ==
    [tape EXCEPT !.ops = Append(tape.ops, op),
                 !.outs = Append(tape.outs, st.out),
                 !.pre = it]

DoNext ==
    /\ CanCall
    /\ it' = itNext(it).it
    /\ tape' = Taped([op |-> "Next", n |-> 1], itNext(it))
    /\ UNCHANGED <<algVars, parseVars, ask, gor>>

DoNextN ==
    /\ CanCall
    /\ \E n \in 0..MaxN :
         /\ it' = itNextN(it, n).it
         /\ tape' = Taped([op |-> "NextN", n |-> n], itNextN(it, n))
    /\ UNCHANGED <<algVars, parseVars, ask, gor>>

\* Reset, once in a run
DoReset ==
    /\ ~tape.reset
    /\ \A k \in DOMAIN tape.outs : tape.outs[k] # RetFault
    /\ it' = itReset(it)
    /\ tape' = [ops |-> <<>>, outs |-> <<>>, reset |-> TRUE, pre |-> it,
                moved |-> IF it.kind = "ip"
                          THEN it.rangeIndex > 0 /\ it.current # NilIP
                          ELSE it.start # NoInt /\ it.start > 0]
    /\ UNCHANGED <<algVars, parseVars, ask, gor>>

NextIter ==
    \/ DoNext
    \/ DoNextN
    \/ DoReset

SpecIter == InitIter /\ [][NextIter]_vars

\* ------------------------------------------------- CIDR iterator runs
\* Sets for the CIDR iterator: lists of ranges over a window of CidrSpan + 1
\* addresses, from address 0 (leading zero bytes) or from the first address
\* of full byte length, one family per list.
CidrSpan == 4

CidrRegions ==
    { [fam |-> IPv4, len |-> IPv4len, vals |-> 0..CidrSpan],
      [fam |-> IPv4, len |-> IPv4len,
       vals |-> Lead(IPv4len)..(Lead(IPv4len) + CidrSpan)],
      [fam |-> IPv6, len |-> IPv6len, vals |-> 0..CidrSpan],
      [fam |-> IPv6, len |-> IPv6len,
       vals |-> Lead(IPv6len)..(Lead(IPv6len) + CidrSpan)] }

InitCIDR ==
    /\ \E reg \in CidrRegions :
         \E a \in ListsOf(reg, MaxIterRanges) :
           /\ rr = MkSet(reg.fam, a, <<>>)
           /\ it = CIDRIterator(rr)
    /\ tape = NoTape
    /\ rs = ZeroSet
    /\ call = NoCall
    /\ res = NoSet
    /\ num = -1
    /\ fed = 0
    /\ strs = <<>>
    /\ pres = NoParse
    /\ pone = NoParseOne
    /\ text = NoText
    /\ back = NoParseOne
    /\ ask = NoAsk
    /\ gor = NoGor

\* Next on the CIDR iterator, up to the call after the first nil; no call
\* follows one that did not return
DoCIDRNext ==
    /\ \A k \in DOMAIN tape.outs :
         /\ tape.outs[k] # RetFault
         /\ tape.outs[k] = RetNil => k = Len(tape.outs)
    /\ it' = cidrNext(it).it
    /\ tape' = Taped([op |-> "Next", n |-> 1], cidrNext(it))
    /\ UNCHANGED <<algVars, parseVars, ask, gor>>

NextCIDR == DoCIDRNext

SpecCIDR == InitCIDR /\ [][NextCIDR]_vars

\* ------------------------------------------------------------ Slice runs
\* Sets for Slice: lists of ranges over three addresses, with and without
\* leading zero bytes, and offsets from -MaxOffset to MaxOffset.
MaxOffset == 5

SliceRegions ==
    { [fam |-> IPv4, len |-> IPv4len, vals |-> 1..3],
      [fam |-> IPv4, len |-> IPv4len,
       vals |-> Lead(IPv4len)..(Lead(IPv4len) + 2)],
      [fam |-> IPv6, len |-> IPv6len,
       vals |-> Lead(IPv6len)..(Lead(IPv6len) + 2)] }

InitSlice ==
    /\ \E reg \in SliceRegions :
         \E a \in ListsOf(reg, MaxIterRanges) : rr = MkSet(reg.fam, a, <<>>)
    /\ it = NoIter
    /\ tape = NoTape
    /\ rs = ZeroSet
    /\ call = NoCall
    /\ res = NoSet
    /\ num = -1
    /\ fed = 0
    /\ strs = <<>>
    /\ pres = NoParse
    /\ pone = NoParseOne
    /\ text = NoText
    /\ back = NoParseOne
    /\ ask = NoAsk
    /\ gor = NoGor

\* rr.Slice(start, end), once in a run
DoSlice ==
    /\ tape.ops = <<>>
    /\ \E start \in (-MaxOffset)..MaxOffset : \E end \in (-MaxOffset)..MaxOffset :
         tape' = [tape EXCEPT
                    !.ops = <<[op |-> "Slice", n |-> start, m |-> end]>>,
                    !.outs = <<RetSet(Slice(rr, start, end))>>]
    /\ UNCHANGED <<algVars, parseVars, ask, it, gor>>

NextSlice == DoSlice

SpecSlice == InitSlice /\ [][NextSlice]_vars

\* ------------------------------------------- calls from several goroutines
\* Two goroutines, each in one call of Merge, Union, Diff or Intersect on
\* the same receiver rr. The receiver is a parsed set, or a set that Diff or
\* Intersect returned, whose list then has the capacity those calls gave it.
\* Merge, Diff and Intersect read the receiver's ranges and store only to
\* lists of their own; Union stores with append(rr.ranges, rs.ranges...):
\* into the receiver's array when its capacity allows, one element after the
\* other, and dup.Merge() then copies the elements back out of that array.
Goroutines == 1..2

RaceOps == {"Merge", "Union", "Diff", "Intersect"}

MaxRaceRanges == 2

RaceRegion ==
    [fam |-> IPv4, len |-> IPv4len,
     vals |-> {Lead(IPv4len), Lead(IPv4len) + 2}]

\* the sets a caller can hold as the receiver
RaceReceivers ==
    LET lists == ListsOf(RaceRegion, MaxRaceRanges)
        parsed == { MkSet(RaceRegion.fam, a, <<>>) : a \in lists }
        pairs == { p \in parsed \X parsed : ~DiffFaults(p[1], p[2]) }
    IN  parsed \cup { Diff(p[1], p[2]) : p \in pairs }
               \cup { Intersect(p[1], p[2]) : p \in parsed \X parsed }

\* the arguments: sets of one range
RaceArgs == { MkSet(RaceRegion.fam, <<r>>, <<>>) : r \in RangesOf(RaceRegion) }

\* the call run alone
RunAlone(op, s, t) ==
    IF op = "Merge" THEN Merge(s)
    ELSE IF op = "Union" THEN Union(s, t)
    ELSE IF op = "Diff" THEN Diff(s, t)
    ELSE Intersect(s, t)

InitRace ==
    /\ rr \in RaceReceivers
    /\ \E ops \in [Goroutines -> RaceOps] : \E args \in [Goroutines -> RaceArgs] :
         /\ \A g \in Goroutines :
              ops[g] = "Diff" => ~DiffFaults(rr, args[g])
         /\ gor = [g \in Goroutines |->
                     [op |-> ops[g], arg |-> args[g], pc |-> "call", k |-> 0,
                      dup |-> <<>>, out |-> NoSet,
                      alone |-> RunAlone(ops[g], rr, args[g])]]
    /\ rs = ZeroSet
    /\ call = NoCall
    /\ res = NoSet
    /\ num = -1
    /\ fed = 0
    /\ strs = <<>>
    /\ pres = NoParse
    /\ pone = NoParseOne
    /\ text = NoText
    /\ back = NoParseOne
    /\ ask = NoAsk
    /\ it = NoIter
    /\ tape = NoTape

\* A call begins. Merge, Diff and Intersect run to their end on copies;
\* Union on a family mismatch is Merge; else append finds the capacity too
\* small and builds a list of its own, or begins to store in place.
RaceCall(g) ==
    LET me == gor[g] IN
    /\ me.pc = "call"
    /\ gor' = [gor EXCEPT ![g] =
                 IF me.op # "Union" \/ rr.version # me.arg.version
                 THEN [me EXCEPT !.pc = "done",
                                 !.out = RunAlone(IF me.op = "Union" THEN "Merge"
                                                  ELSE me.op, rr, me.arg)]
                 ELSE IF ~appendInPlace(rr, me.arg)
                 THEN [me EXCEPT !.pc = "merge",
                                 !.dup = rr.ranges \o me.arg.ranges]
                 ELSE [me EXCEPT !.pc = "store"]]
    /\ UNCHANGED <<algVars, parseVars, ask, it, tape>>

\* append stores the next element of the argument in the receiver's array
RaceStore(g) ==
    LET me == gor[g] IN
    /\ me.pc = "store"
    /\ me.k < Len(me.arg.ranges)
    /\ rr' = [rr EXCEPT !.spare[me.k + 1] = me.arg.ranges[me.k + 1]]
    /\ gor' = [gor EXCEPT ![g].k = me.k + 1,
                          ![g].pc = IF me.k + 1 = Len(me.arg.ranges)
                                    THEN "merge" ELSE "store"]
    /\ UNCHANGED <<rs, call, res, num, fed, parseVars, ask, it, tape>>

\* dup.Merge(): the list of dup is its own, or the receiver's array up to
\* the length append returned
RaceMerge(g) ==
    LET me == gor[g]
        list == IF me.dup # <<>> THEN me.dup
                ELSE rr.ranges \o SubSeq(rr.spare, 1, Len(me.arg.ranges))
    IN  /\ me.pc = "merge"
        /\ gor' = [gor EXCEPT ![g].pc = "done",
                              ![g].out = Merge(MkSet(rr.version, list, <<>>))]
        /\ UNCHANGED <<algVars, parseVars, ask, it, tape>>

NextRace ==
    \E g \in Goroutines :
        \/ RaceCall(g)
        \/ RaceStore(g)
        \/ RaceMerge(g)

SpecRace == InitRace /\ [][NextRace]_vars

\* ------------------------------------------------- address arithmetic runs
\* Addresses for next, prev and nextN: 4-byte and 16-byte addresses from 0
\* on (leading zero bytes) and from the first address of full byte length on.
ArithSpan == 6

ArithIPs ==
    UNION { { MkIP(n, v) : v \in (0..ArithSpan)
                                \cup (Lead(n)..(Lead(n) + ArithSpan)) } :
            n \in {IPv4len, IPv6len} }

InitArith ==
    /\ rr = ZeroSet
    /\ rs = ZeroSet
    /\ call = NoCall
    /\ res = NoSet
    /\ num = -1
    /\ fed = 0
    /\ strs = <<>>
    /\ pres = NoParse
    /\ pone = NoParseOne
    /\ text = NoText
    /\ back = NoParseOne
    /\ ask = NoAsk
    /\ gor = NoGor
    /\ it = NoIter
    /\ tape = NoTape

\* one call of ip.next(), ip.prev() or ip.nextN(n) in a run
Called(op, a, n, out) ==
    /\ tape.ops = <<>>
    /\ tape' = [tape EXCEPT !.ops = <<[op |-> op, n |-> n, a |-> a]>>,
                            !.outs = <<RetIP(out)>>]
    /\ UNCHANGED <<algVars, parseVars, ask, it, gor>>

DoIPNext == \E a \in ArithIPs : Called("next", a, 1, next(a))

DoIPPrev == \E a \in ArithIPs : Called("prev", a, -1, prev(a))

DoIPNextN == \E a \in ArithIPs : \E n \in 0..MaxN : Called("nextN", a, n, nextN(a, n))

NextArith ==
    \/ DoIPNext
    \/ DoIPPrev
    \/ DoIPNextN

SpecArith == InitArith /\ [][NextArith]_vars

\* ------------------------------------- iterators whose source set is in use
\* A point or CIDR iterator takes rr.ranges itself (iterator.go:18-23,
\* 209-223): its list and the set's list are one array. Between two Next
\* calls the caller makes one call on the set, with a set equal to the
\* source as the argument where one is needed (rs, which nothing changes).
\* What the call does to the set's list it does to the iterator's.
SetCalls ==
    {"Contains", "Size", "Equal", "IsOverlap", "Merge", "Union", "Diff",
     "Intersect"}

\* the receiver as a call on the set leaves it
RecvAfter(op, s, t) ==
    IF op = "IsOverlap" THEN IsOverlapRecv(s)
    ELSE IF op = "Merge" THEN MergeRecv(s)
    ELSE IF op = "Union" THEN UnionRecv(s, t)
    ELSE IF op = "Diff" THEN DiffRecv(s, t)
    ELSE IF op = "Intersect" THEN IntersectRecv(s, t)
    ELSE s

liveNext(i) == IF i.kind = "ip" THEN ipNext(i) ELSE cidrNext(i)

InitLive ==
    /\ \E reg \in IterRegions :
         \E a \in ListsOf(reg, MaxIterRanges) :
           /\ rr = MkSet(reg.fam, a, <<>>)
           /\ it \in {IPIterator(rr), CIDRIterator(rr)}
    /\ rs = rr
    /\ tape = NoTape
    /\ call = NoCall
    /\ res = NoSet
    /\ num = -1
    /\ fed = 0
    /\ strs = <<>>
    /\ pres = NoParse
    /\ pone = NoParseOne
    /\ text = NoText
    /\ back = NoParseOne
    /\ ask = NoAsk
    /\ gor = NoGor

DoLiveNext ==
    /\ CanCall
    /\ it' = liveNext(it).it
    /\ tape' = Taped([op |-> "Next", n |-> 1], liveNext(it))
    /\ UNCHANGED <<algVars, parseVars, ask, gor>>

\* one call on the source set in a run, once the iterator has been used
DoLiveSetCall ==
    /\ call = NoCall
    /\ Len(tape.ops) > 0
    /\ \E op \in SetCalls :
         /\ (op = "Diff") => ~DiffFaults(rr, rs)
         /\ call' = [op |-> op, recv |-> rr, arg |-> rs]
         /\ rr' = RecvAfter(op, rr, rs)
         /\ it' = [it EXCEPT !.ranges = RecvAfter(op, rr, rs).ranges]
    /\ UNCHANGED <<rs, res, num, fed, parseVars, ask, tape, gor>>

NextLive ==
    \/ DoLiveNext
    \/ DoLiveSetCall

SpecLive == InitLive /\ [][NextLive]_vars

\* ---------------------------------------------------------------- claims
\* integer values of the bounds of a list's ranges
EndPoints(list) ==
    UNION { {ipToInt(list[k].start), ipToInt(list[k].end)} : k \in DOMAIN list }

FamLen(v) == IF v = IPv6 THEN IPv6len ELSE IPv4len

\* The addresses a claim about a call is tried on: every address of the
\* call's family that is a bound of an operand or of the result, or next
\* to one (coverage can only change there).
Probes ==
    LET n == FamLen(call.recv.version)
        pts == EndPoints(call.recv.ranges) \cup EndPoints(call.arg.ranges)
                 \cup EndPoints(res.ranges)
        near == UNION { {v - 1, v, v + 1} : v \in pts }
    IN  { MkIP(n, v) : v \in { w \in near : w >= 0 /\ ByteLen(w) <= n } }

SortedDisjoint(list) ==
    \A k \in 1..(Len(list) - 1) :
        /\ ipToInt(list[k].start) < ipToInt(list[k + 1].start)
        /\ ipToInt(list[k].end) < ipToInt(list[k + 1].start)

MergedForm(list) ==
    \A k \in 1..(Len(list) - 1) :
        /\ ipToInt(list[k].start) < ipToInt(list[k + 1].start)
        /\ ipToInt(list[k].end) + 1 < ipToInt(list[k + 1].start)

BothNonEmptySameFamily ==
    /\ call.recv.version = call.arg.version
    /\ Len(call.recv.ranges) > 0
    /\ Len(call.arg.ranges) > 0

\* C1: after Diff on non-empty same-family sets A and B, the result contains
\* an address exactly when A contains it and B does not, and the result's
\* list is in merged form.
C1_DiffExactMerged ==
    (call.op = "Diff" /\ BothNonEmptySameFamily) =>
        /\ \A a \in Probes :
             Contains(res, a) <=>
                (Contains(call.recv, a) /\ ~Contains(call.arg, a))
        /\ MergedForm(res.ranges)

\* C2: after Intersect on non-empty same-family sets A and B, the result
\* contains an address exactly when A and B both contain it, and the
\* result's list is sorted by start and non-overlapping.
C2_IntersectExactSorted ==
    (call.op = "Intersect" /\ BothNonEmptySameFamily) =>
        /\ \A a \in Probes :
             Contains(res, a) <=>
                (Contains(call.recv, a) /\ Contains(call.arg, a))
        /\ SortedDisjoint(res.ranges)

\* C3: the list Merge returns is strictly ascending by start, non-overlapping
\* and non-adjacent: r.end + 1 < r'.start for consecutive ranges r, r'.
C3_MergeMergedForm ==
    call.op = "Merge" => MergedForm(res.ranges)

\* C4: Merge preserves the addresses: the result contains an address exactly
\* when the receiver does.
C4_MergePreservesAddresses ==
    call.op = "Merge" =>
        \A a \in Probes : Contains(res, a) <=> Contains(call.recv, a)

\* the addresses a range covers, and the addresses a list covers, as integers
Span(r) == ipToInt(r.start)..ipToInt(r.end)

Covered(list) == UNION { Span(list[k]) : k \in DOMAIN list }

\* one entry per listed range and address of it
Listed(list) == UNION { { <<k, v>> : v \in Span(list[k]) } : k \in DOMAIN list }

Ordered(list) ==
    \A k \in DOMAIN list : ipToInt(list[k].start) <= ipToInt(list[k].end)

DashStart(r) == normalizeIP(ParseIP(r.a))

DashEnd(r) ==
    IF ParseIP(r.b) # NilIP THEN normalizeIP(ParseIP(r.b))
    ELSE normalizeIP(ParseIP(JoinSuffix(r.a, r.b)))

Unparseable(i) == ~parse(strs[i]).ok

FamilyOf(i) == version(parse(strs[i]).r.start)

Offends(i) == Unparseable(i) \/ FamilyOf(i) # FamilyOf(1)

C10_OperandsUnchanged ==
    (call.op \in {"Merge", "Union", "Diff", "Intersect"}) =>
        /\ rr.version = call.recv.version
        /\ rr.ranges = call.recv.ranges
        /\ (call.op # "Merge" =>
              /\ rs.version = call.arg.version
              /\ rs.ranges = call.arg.ranges)

\* Union appended in place: the argument's ranges now fill spare slots of
\* the receiver's backing array, behind its unchanged list
C10_Witness ==
    /\ call.op = "Union"
    /\ rr.spare # call.recv.spare
    /\ rr.ranges = call.recv.ranges
    /\ Len(call.arg.ranges) > 0

\* C11: with operands of different family tags Union, Diff and Intersect
\* return the left operand merged, under the left operand's family, and no
\* call faults; Diff and Intersect do the same when an operand has no ranges.
C11_MismatchGivesLeftMerged ==
    LET mismatch == call.recv.version # call.arg.version
        anEmpty == Len(call.recv.ranges) = 0 \/ Len(call.arg.ranges) = 0
    IN  /\ (call.op = "DiffFault") => ~(mismatch \/ anEmpty)
        /\ ( \/ (call.op \in {"Union", "Diff", "Intersect"} /\ mismatch)
             \/ (call.op \in {"Diff", "Intersect"} /\ anEmpty) )
           => /\ res.version = call.recv.version
              /\ res.ranges = Merge(call.recv).ranges
              /\ Equal(res, Merge(call.recv))

\* a Union across families whose left operand Merge had to reorder
C11_Witness ==
    /\ call.op = "Union"
    /\ call.recv.version = IPv4
    /\ call.arg.version = IPv6
    /\ Len(call.arg.ranges) > 0
    /\ Len(call.recv.ranges) > 1
    /\ res.ranges # call.recv.ranges
    /\ res.ranges = Merge(call.recv).ranges

\* a range of a set of family v: both bounds addresses of that family in
\* their proper byte length, start not above end
WellFormedRange(r, v) ==
    /\ r.start.len = FamLen(v)
    /\ r.end.len = FamLen(v)
    /\ version(r.start) = v
    /\ version(r.end) = v
    /\ r.start.val <= r.end.val

WellFormedSet(s) ==
    \A k \in DOMAIN s.ranges : WellFormedRange(s.ranges[k], s.version)

\* C12: every set that Merge, Union, Diff or Intersect returns, after any
\* sequence of such calls on well-formed sets, is well-formed: each range has
\* start <= end and bounds of 4 bytes (IPv4) or 16 bytes (IPv6).
C12_WellFormedPreserved ==
    (call.op \in {"Merge", "Union", "Diff", "Intersect"}) => WellFormedSet(res)

\* the exponent of a power of two
RECURSIVE Log2(_)
Log2(i) == IF i <= 1 THEN 0 ELSE 1 + Log2(i \div 2)

C14_StringRoundTrip ==
    back.done =>
        /\ back.ok
        /\ back.r.start = pone.r.start
        /\ back.r.end = pone.r.end

\* C14 for the ranges whose bounds are addresses of one family
C14_RoundTripOfWellFormed ==
    (back.done /\ WellFormedRange(pone.r, version(pone.r.start))) =>
        /\ back.ok
        /\ back.r.start = pone.r.start
        /\ back.r.end = pone.r.end

\* the family of an address by its bytes: 4 bytes, or 16 bytes that begin
\* with the IPv4-mapped prefix, are IPv4; other 16 bytes are IPv6
AskedFamily(ip) ==
    IF ip.len = IPv4len THEN IPv4
    ELSE IF ip.len = IPv6len
         THEN (IF ip.val \div (ByteBase ^ IPv4len) = V4InV6Prefix THEN IPv4 ELSE IPv6)
         ELSE Unknown

AskedValue(ip) ==
    IF AskedFamily(ip) = IPv4 THEN ip.val % (ByteBase ^ IPv4len) ELSE ip.val

\* C15: Contains(addr) is false when addr is of another family than the
\* set, when addr is no address, and for the zero-value set; otherwise it
\* is true exactly when start <= addr <= end for some range of the set.
C15_ContainsByFamilyAndBounds ==
    ask.done =>
        IF \/ AskedFamily(ask.ip) = Unknown
           \/ AskedFamily(ask.ip) # rr.version
           \/ rr = ZeroSet
        THEN ask.ans = FALSE
        ELSE ask.ans <=>
               \E k \in DOMAIN rr.ranges :
                  /\ rr.ranges[k].start.val <= AskedValue(ask.ip)
                  /\ AskedValue(ask.ip) <= rr.ranges[k].end.val

\* an IPv6 address that spells the same number as a member of an IPv4 set
C15_Witness ==
    /\ ask.done
    /\ rr.version = IPv4
    /\ ask.ip.len = IPv6len
    /\ AskedFamily(ask.ip) = IPv6
    /\ \E k \in DOMAIN rr.ranges :
         /\ rr.ranges[k].start.val <= ask.ip.val
         /\ ask.ip.val <= rr.ranges[k].end.val
    /\ ~ask.ans

RECURSIVE AddressesOf(_, _)
\* the addresses of a list from range k on, range after range, each range
\* from its start up to its end, in the byte length of the range
AddressesOf(ranges, k) ==
    IF k > Len(ranges) THEN <<>>
    ELSE LET r == ranges[k]
         IN  [i \in 1..((r.end.val - r.start.val) + 1) |->
                 MkIP(r.start.len, (r.start.val + i) - 1)]
               \o AddressesOf(ranges, k + 1)

OnlyNext == \A k \in DOMAIN tape.ops : tape.ops[k].op = "Next"

\* C16: a fresh point iterator driven by Next alone yields the addresses of
\* the set, range after range from start to end, Size() of them, and then
\* nil.
C16_NextYieldsEveryAddress ==
    (it.kind = "ip" /\ ~tape.reset /\ OnlyNext) =>
        LET want == AddressesOf(rr.ranges, 1) IN
        /\ Len(want) = Size(rr)
        /\ \A k \in DOMAIN tape.outs :
             /\ (k <= Len(want)) => tape.outs[k] = RetIP(want[k])
             /\ (k = Len(want) + 1) => tape.outs[k] = RetNil

RECURSIVE NextTimes(_, _)
\* n Next calls in a row: the iterator after them and the last result, nil
\* from the first call on that returns nil
NextTimes(ii, n) ==
    IF n = 0 THEN Step(ii, RetNil)
    ELSE LET st == ipNext(ii) IN
         IF n = 1 \/ st.out # RetIP(st.it.current) THEN st
         ELSE NextTimes(st.it, n - 1)

\* C17: NextN(n), n >= 1, returns what n Next calls in a row would return
\* last (nil when fewer than n addresses are left) and, when that is an
\* address, leaves the cursor where they would; an address it returns is in
\* a range of the set.
C17_NextNIsNTimesNext ==
    ( /\ it.kind = "ip"
      /\ Len(tape.ops) > 0
      /\ tape.ops[Len(tape.ops)].op = "NextN"
      /\ tape.ops[Len(tape.ops)].n >= 1 ) =>
        LET n == tape.ops[Len(tape.ops)].n
            out == tape.outs[Len(tape.outs)]
            want == NextTimes(tape.pre, n)
        IN  /\ out = want.out
            /\ (out.kind = "ip") =>
                  /\ it.rangeIndex = want.it.rangeIndex
                  /\ it.current = want.it.current
                  /\ Contains(rr, out.ip)

\* C18: once a call on the point iterator has returned nil, every later
\* call returns nil, and none faults.
C18_ExhaustionIsStable ==
    (it.kind = "ip") =>
        \A i \in DOMAIN tape.outs : \A j \in DOMAIN tape.outs :
            (i < j /\ tape.outs[i] = RetNil) => tape.outs[j] = RetNil

\* a newly made iterator of the kind of it over the same set
FreshOf(i) ==
    IF i.kind = "ip" THEN IPIterator(rr) ELSE BlockIterator(rr, i.blockSize)

RECURSIVE Replay(_, _)
\* the results of the calls ops made in turn on the iterator i
Replay(i, ops) ==
    IF ops = <<>> THEN <<>>
    ELSE LET st == IF Head(ops).op = "Next" THEN itNext(i)
                   ELSE itNextN(i, Head(ops).n)
         IN  <<st.out>> \o Replay(st.it, Tail(ops))

\* C19: after Reset the calls on a point or block iterator return what the
\* same calls return on a newly made iterator over the same set.
C19_ResetRewinds ==
    tape.reset => tape.outs = Replay(FreshOf(it), tape.ops)

\* a point iterator reset after it had moved on to a later range, and
\* called again at least twice
C19_Witness ==
    /\ tape.reset
    /\ tape.moved
    /\ it.kind = "ip"
    /\ Len(tape.outs) >= 2
    /\ tape.outs[1].kind = "ip"

\* ------------------------------------------------------------------ C20
\* The addresses of a returned net.IPNet: those the network number and the
\* mask stand for when both have the byte length of the family, none
\* otherwise (such a value contains no address).
NetFirst(o) == o.ip.val

NetSize(o) == 2 ^ ((o.mask.len * BitsPerByte) - o.mask.ones)

NetFits(o, fam) ==
    /\ o.kind = "net"
    /\ o.ip.len = FamLen(fam)
    /\ o.mask.len = FamLen(fam)

RECURSIVE BlocksCover(_, _, _, _, _)
\* outs from index j on are blocks for ranges k.. of the list, the first
\* of them starting at address pos inside range k, then nil
BlocksCover(fam, ranges, k, pos, j) ==
    LET outs == tape.outs IN
    IF j > Len(outs) THEN TRUE
    ELSE IF k > Len(ranges) THEN outs[j] = RetNil
    ELSE LET r == ranges[k]
             o == outs[j]
         IN  /\ NetFits(o, fam)
             /\ NetFirst(o) = pos
             /\ NetFirst(o) % NetSize(o) = 0
             /\ pos + NetSize(o) - 1 <= r.end.val
             /\ IF pos + NetSize(o) - 1 = r.end.val
                THEN BlocksCover(fam, ranges, k + 1,
                                 IF k < Len(ranges)
                                 THEN ranges[k + 1].start.val ELSE 0,
                                 j + 1)
                ELSE BlocksCover(fam, ranges, k, pos + NetSize(o), j + 1)

\* C20: the blocks the CIDR iterator returns are, range by range in list
\* order, aligned to their size, each starting where the one before ended,
\* from the start of the range up to exactly its end (so their sizes add up
\* to the size of the range), and after the last range comes nil.
C20_CIDRBlocksCoverEachRange ==
    (it.kind = "cidr") =>
        BlocksCover(rr.version, rr.ranges, 1,
                    IF Len(rr.ranges) > 0 THEN rr.ranges[1].start.val ELSE 0, 1)

\* ------------------------------------------------------------------ C21
\* the last result of the CIDR iterator, when it is a block: its size, and
\* the address the iterator stood at when it was returned
LastNet == tape.outs[Len(tape.outs)]

LastNetAt == it.current - NetSize(LastNet)

StartsAtZero == \E k \in DOMAIN rr.ranges : rr.ranges[k].start.val = 0

\* C21: every block the CIDR iterator returns is the largest one that is
\* aligned at the address the iterator stands at and ends inside the range:
\* it is aligned and fits, and the block of twice its size is not aligned
\* there or does not fit.
C21_CIDRBlockIsLargest ==
    (it.kind = "cidr" /\ Len(tape.outs) > 0 /\ LastNet.kind = "net") =>
        LET sz == NetSize(LastNet)
            at == LastNetAt
        IN  /\ at % sz = 0
            /\ at + sz - 1 <= it.lastInt
            /\ ~(at % (2 * sz) = 0 /\ at + (2 * sz) - 1 <= it.lastInt)

\* the same for sets none of whose ranges starts at the all-zero address
C21_LargestAwayFromZero == (~StartsAtZero) => C21_CIDRBlockIsLargest

\* ------------------------------------------------------------------ C22
\* the addresses of a set, in list order
AddressesIn(s) == AddressesOf(s.ranges, 1)

\* the addresses of a sequence at offsets a..b
Window(seq, a, b) == SubSeq(seq, a + 1, b + 1)

\* C22: a fresh block iterator of block size b over a set of s addresses,
\* driven by Next alone, returns as its k-th result (k from 0) the slice of
\* offsets [k*b, k*b + b - 1] while k*b < s and nil afterwards; the slice
\* holds the addresses at these offsets that exist, b of them or, in the last
\* block, s - k*b; a block size of zero or less makes the iterator of block
\* size 1.
C22_BlockNextWalksOffsets ==
    (it.kind = "block" /\ ~tape.reset /\ OnlyNext) =>
        LET b == it.blockSize
            s == Size(rr)
            all == AddressesIn(rr)
        IN  /\ b >= 1
            /\ \A b0 \in (-1)..0 : BlockIterator(rr, b0) = BlockIterator(rr, 1)
            /\ \A j \in DOMAIN tape.outs :
                 LET off == (j - 1) * b
                     last == min(off + b - 1, s - 1)
                 IN  IF off < s
                     THEN /\ tape.outs[j] = RetSet(Slice(rr, off, off + b - 1))
                          /\ AddressesIn(tape.outs[j].set)
                               = Window(all, off, last)
                          /\ Size(tape.outs[j].set) = min(b, s - off)
                     ELSE tape.outs[j] = RetNil

\* a run of Next calls with block size 2 over three addresses: a full block,
\* a last block of one address, nil
C22_Witness ==
    /\ it.kind = "block"
    /\ ~tape.reset
    /\ OnlyNext
    /\ it.blockSize = 2
    /\ Size(rr) = 3
    /\ Len(tape.outs) = 3
    /\ tape.outs[2].kind = "set"
    /\ Size(tape.outs[2].set) = 1
    /\ tape.outs[3] = RetNil

\* ------------------------------------------------------------------ C23
Sliced == Len(tape.ops) = 1 /\ tape.ops[1].op = "Slice"

\* an index clamped into [0, size) after a negative one was counted from
\* the size
ClampBoth(i, sz) ==
    LET j == IF i < 0 THEN i + sz ELSE i
    IN  IF j < 0 THEN 0 ELSE IF j > sz - 1 THEN sz - 1 ELSE j

\* the result of Slice is the set of the addresses at offsets a..b, in list
\* order: the empty set of the family when a > b, else ranges of the list in
\* order, each the part of its range inside the window
SliceIsWindow(a, b) ==
    LET out == tape.outs[1].set
        all == AddressesIn(rr)
    IN  /\ tape.outs[1].kind = "set"
        /\ out.version = rr.version
        /\ IF a > b THEN out.ranges = <<>>
           ELSE /\ AddressesIn(out) = Window(all, a, b)
                /\ Size(out) = (b - a) + 1
                /\ \A k \in DOMAIN out.ranges :
                     /\ out.ranges[k].start.val <= out.ranges[k].end.val
                     /\ \E j \in DOMAIN rr.ranges :
                          /\ out.ranges[k].start.len = rr.ranges[j].start.len
                          /\ rr.ranges[j].start.val <= out.ranges[k].start.val
                          /\ out.ranges[k].end.val <= rr.ranges[j].end.val
                /\ Len(out.ranges) <= Len(rr.ranges)

C24_ConcurrentCallsAsAlone ==
    \A g \in DOMAIN gor :
        (gor[g].pc = "done") =>
            /\ gor[g].out.version = gor[g].alone.version
            /\ gor[g].out.ranges = gor[g].alone.ranges

\* the same for receivers whose list has no capacity to spare
C24_AsAloneWithoutSpare ==
    (rr.spare = <<>>) => C24_ConcurrentCallsAsAlone

\* ------------------------------------------------------------------ C25
\* C25: the set a Merge call returns is Equal to its own Merge, whatever the
\* receiver was: a parsed list in any order, with overlapping and adjacent
\* ranges, or a set an earlier call returned.
C25_MergeIdempotent ==
    /\ (call.op = "Merge") =>
           /\ res = Merge(call.recv)
           /\ Equal(Merge(res), res)
           /\ Merge(res).ranges = res.ranges
    /\ Equal(Merge(Merge(rr)), Merge(rr))

\* a Merge call on three ranges that joined two of them
C25_Witness ==
    /\ call.op = "Merge"
    /\ Len(call.recv.ranges) = 3
    /\ Len(res.ranges) = 2
    /\ Equal(Merge(res), res)

\* ------------------------------------------------------------------ C26
\* C26: once Next on the CIDR iterator has returned nil, every later Next
\* returns nil as well; none ends in an index fault.
C26_CIDRExhaustionIsStable ==
    (it.kind = "cidr") =>
        \A i \in DOMAIN tape.outs : \A j \in DOMAIN tape.outs :
            (i < j /\ tape.outs[i] = RetNil) => tape.outs[j] = RetNil

\* the zero set: nil, and nil again
C26_StableOnZeroSet ==
    (it.kind = "cidr" /\ rr.ranges = <<>>) => C26_CIDRExhaustionIsStable

\* ------------------------------------------------------------------ C27
\* the last call was NextN on a block iterator
LastIsBlockNextN ==
    /\ it.kind = "block"
    /\ Len(tape.ops) > 0
    /\ tape.ops[Len(tape.ops)].op = "NextN"
    /\ tape.pre.kind = "block"

\* the offset at which the block that call asked for starts
TargetOffset ==
    LET n0 == tape.ops[Len(tape.ops)].n
        n == IF n0 <= 0 THEN 1 ELSE n0
        b == tape.pre.blockSize
    IN  IF tape.pre.start = NoInt THEN (n - 1) * b ELSE tape.pre.start + (n * b)

\* C27: NextN on a block iterator returns nil exactly when the block it asks
\* for starts at or beyond the size of the set, on a fresh or reset iterator
\* as on a moved one, and a set it returns holds at least one address.
C27_BlockNextNNilIffBeyond ==
    LastIsBlockNextN =>
        LET out == tape.outs[Len(tape.outs)] IN
        /\ (out = RetNil) <=> (TargetOffset >= tape.pre.size)
        /\ (out.kind = "set") => Size(out.set) > 0

\* the same for calls on an iterator that has moved before
C27_NilIffBeyondWhenMoved ==
    (LastIsBlockNextN /\ tape.pre.start # NoInt) => C27_BlockNextNNilIffBeyond

\* ------------------------------------------------------------------ C28
\* C28: IsOverlap leaves the receiver's list as it was: the same ranges in
\* the same order.
C28_IsOverlapLeavesReceiver ==
    (call.op = "IsOverlap") =>
        /\ rr.ranges = call.recv.ranges
        /\ rr.version = call.recv.version

\* the same for receivers whose ranges are in the order of their starts
C28_LeavesSortedReceiver ==
    (call.op = "IsOverlap" /\ sortSlice(call.recv.ranges) = call.recv.ranges)
        => C28_IsOverlapLeavesReceiver

\* ------------------------------------------------------------------ C29
Stepped == Len(tape.ops) = 1 /\ tape.ops[1].op \in {"next", "prev", "nextN"}

\* the integer the call is to reach, and whether the family has it
Reached == tape.ops[1].a.val + tape.ops[1].n

InFamily == Reached >= 0 /\ Reached \div ByteBase < Lead(tape.ops[1].a.len)

\* C29: next, prev and nextN of a 4-byte or 16-byte address return, when the
\* result is an address of the family, a slice of the same byte length whose
\* integer is a+1, a-1 and a+n; and the address made of an address's
\* integer is that address.
C29_ArithmeticKeepsWidth ==
    (Stepped /\ InFamily) =>
        /\ tape.outs[1] = RetIP(MkIP(tape.ops[1].a.len, Reached))
        /\ intToIP(ipToInt(tape.ops[1].a)) = tape.ops[1].a

\* the same where neither the address nor the result has a leading zero byte
C29_KeepsWidthAtFullLength ==
    (/\ Stepped
     /\ tape.ops[1].a.val >= Lead(tape.ops[1].a.len)
     /\ Reached >= Lead(tape.ops[1].a.len))
        => C29_ArithmeticKeepsWidth

\* ------------------------------------------------------------------ C30
\* the iterator of the same kind newly made over the source set as it was
Undisturbed == IF it.kind = "ip" THEN IPIterator(rs) ELSE CIDRIterator(rs)

RECURSIVE NextRun(_, _)
\* the results of n Next calls in a row on the iterator i
NextRun(i, n) ==
    IF n = 0 THEN <<>>
    ELSE <<liveNext(i).out>> \o NextRun(liveNext(i).it, n - 1)

\* C30: a point or CIDR iterator returns, call after call, what it returns
\* when no call is made on its source set between its Next calls.
C30_SourceCallsDoNotDisturb ==
    (it.kind \in {"ip", "cidr"}) =>
        tape.outs = NextRun(Undisturbed, Len(tape.outs))

\* the same for every call on the source set but IsOverlap
C30_OnlyIsOverlapDisturbs ==
    (call.op # "IsOverlap") => C30_SourceCallsDoNotDisturb

====
